---- MODULE Spec2Model ----
(***************************************************************************)
(* Adaptive Opus: the controller policies (dashboard_engine.py), the       *)
(* parallel parameter sweep (main_script.py) and the dashboard's           *)
(* controller loop (dashboard.py), as state machines.                      *)
(*                                                                         *)
(* Loss percentages are floats in the code.  Here a loss is an integer     *)
(* number of 1/LossScale percent, so 4.999 is 4999 and 5.0 is 5000 when    *)
(* LossScale is 1000; a literal threshold t of the code is t * LossScale.  *)
(* Predicted scores are integers; the code's -1e9 is -10^9.                *)
(* Python's None is the empty sequence <<>>, a value v is <<v>>.           *)
(***************************************************************************)
EXTENDS Integers, Sequences, FiniteSets, TLC

VARIABLES
    \* ---- controller calls (dashboard_engine.py) ----
    packet_loss,    \* the loss argument of the calls
    model,          \* the predictor handed to ml_controller / hybrid_controller
    call,           \* the function called last ("idle" before the first call)
    ret,            \* what the controller called last returned (<<>> is None)
    configs,        \* what generate_all_configs returned last (<<>> before)
    \* ---- the sweep (main_script.py) ----
    audio_files,    \* the .flac files rglob finds under CLEAN_AUDIO_DIR
    all_job_params, \* the job list
    pcMain,         \* where the coordinating (main) process is
    ended,          \* how run_experiment_parallel left: "" while it runs
    pool,           \* the global `pool`: <<>> (None) or <<"Pool">>
    poolState,      \* the Pool object: "none", "run", "closed", "terminated"
    poolJoined,     \* pool.join() has returned
    workers,        \* worker process -> [state, job]
    next_task,      \* index of the next job to be handed to a worker
    outq,           \* results of finished jobs not yet iterated, in completion order
    consumed,       \* results the for loop has iterated
    results_list,   \* the collected rows
    results_from,   \* (history) the job each collected row came from
    failed,         \* (history) the jobs whose oracle failed
    dataset,        \* the written CSV: <<>> while none is written, else <<rows>>
    \* ---- the dashboard's controller loop (dashboard.py) ----
    dash_pc,        \* "loop" while the for loop runs, "done", "raised"
    dash_i,         \* index of the controller the loop is at
    dash_shown,     \* what each tab shows, in the order of the loop
    \* ---- one run of the codec pipeline, external step by external step ----
    run_kind,       \* "job": run_single_combination, "simulation": run_audio_simulation
    run_params,     \* the job's params / what process_audio_file is called with
    run_controller, \* the controller_type argument of run_audio_simulation
    run_pc,         \* the external step the run is at, "returned", "raised"
    processed_dir,  \* the files of PROCESSED_AUDIO_DIR that exist
    steps,          \* (history) the controller decision and the external steps so far
    run_ret         \* what the run returned

ctlVars == <<packet_loss, model, call, ret, configs>>

sweepVars == <<audio_files, all_job_params, pcMain, ended, pool, poolState,
               poolJoined, workers, next_task, outq, consumed, results_list,
               results_from, failed, dataset>>

dashVars == <<dash_pc, dash_i, dash_shown>>

runVars == <<run_kind, run_params, run_controller, run_pc, processed_dir, steps,
            run_ret>>

vars == <<ctlVars, sweepVars, dashVars, runVars>>

-----------------------------------------------------------------------------
(* Bounds of the model *)

\* a loss is resolved to 1/LossScale of a percent
LossScale == 1000
\* losses are taken around every whole percent from 0 to MaxLossPct
MaxLossPct == 12
\* audio files found under CLEAN_AUDIO_DIR, at most
MaxFiles == 3
\* multiprocessing.cpu_count(): the worker processes of the pool
NumCores == 2

-----------------------------------------------------------------------------
(* Helpers *)

None == <<>>

Some(v) == <<v>>

RECURSIVE Flatten(_)
\* the concatenation of a sequence of sequences: what nested for loops that
\* append to one list build
Flatten(ss) == IF ss = <<>> THEN <<>> ELSE Head(ss) \o Flatten(Tail(ss))

Range(s) == {s[i] : i \in 1..Len(s)}

-----------------------------------------------------------------------------
(* ParameterSpace: dashboard_engine.generate_all_configs *)

Config(b, f, c, fec) ==
    [bitrate |-> b, frame_size |-> f, complexity |-> c, use_fec |-> fec]

\* the four nested loops over the given lists, innermost last
GridOf(bitrates, frame_sizes, complexities, fec_options) ==
    Flatten([bi \in 1..Len(bitrates) |->
      Flatten([fi \in 1..Len(frame_sizes) |->
        Flatten([ci \in 1..Len(complexities) |->
          [ki \in 1..Len(fec_options) |->
             Config(bitrates[bi], frame_sizes[fi], complexities[ci],
                    fec_options[ki])]])])])

\* a grid whose innermost loop runs over [True, False] (FEC_STATUSES' order)
generate_all_configs_fec_first ==
    GridOf(<<8, 12, 16, 24, 32, 48>>, <<20, 40, 60>>, <<5, 9>>, <<TRUE, FALSE>>)

generate_all_configs ==
    GridOf(<<8, 12, 16, 24, 32, 48>>, <<20, 40, 60>>, <<5, 9>>, <<FALSE, TRUE>>)

-----------------------------------------------------------------------------
(* ControllerPolicy: static, heuristic *)

\* a static controller that follows the heuristic's lowest tier under loss
static_controller_lossy(loss) ==
    Config(IF loss < 10 * LossScale THEN 32 ELSE 12, 20, 5, FALSE)

static_controller(loss) == Config(32, 20, 5, FALSE)

\* a heuristic whose bands include their upper bound
heuristic_controller_closed(loss) ==
    LET bitrate == IF loss <= 2 * LossScale THEN 48
                   ELSE IF loss <= 5 * LossScale THEN 24
                   ELSE IF loss <= 10 * LossScale THEN 16
                   ELSE 12
    IN  Config(bitrate, 20, 5, FALSE)

heuristic_controller(loss) ==
    LET bitrate == IF loss < 2 * LossScale THEN 48
                   ELSE IF loss < 5 * LossScale THEN 24
                   ELSE IF loss < 10 * LossScale THEN 16
                   ELSE 12
    IN  Config(bitrate, 20, 5, FALSE)

-----------------------------------------------------------------------------
(* PredictiveQualityModel: the object handed in as `model`.  A predictor is  *)
(* opaque to the code, which only calls model.predict([features])[0]; these  *)
(* are the predictors the model is run with.                                 *)

\* the loaded model is None (load_model found no artifact, or it failed to load)
NoModel == [kind |-> "none", a |-> 0, b |-> 0, c |-> 0]

Models ==
    {NoModel}
    \* a*bitrate + b*frame_size + 10*c*use_fec; a = b = c = 0 scores all alike
    \cup [kind : {"linear"}, a : {-1, 0, 1}, b : {-1, 0, 1}, c : {-1, 0, 1}]
    \* a mock that prefers the candidates with bitrate a, frame size b, FEC c
    \cup [kind : {"peak"}, a : {8, 32, 48}, b : {20, 60}, c : {0, 1}]
    \* prefers high bitrates below a percent of loss, low ones with FEC from there on
    \cup [kind : {"lossaware"}, a : {3, 5}, b : {0}, c : {0}]
    \* raises on the candidates with bitrate a, scores the others b*bitrate
    \cup [kind : {"flaky"}, a : {8, 16, 48}, b : {-1, 1}, c : {0}]
    \* scores every candidate a * 10^9
    \cup [kind : {"constant"}, a : {-2, -1}, b : {0}, c : {0}]

\* model.predict([features])[0]: [raised |-> TRUE] when the call raises
Predict(mdl, features) ==
    LET bitrate == features[1]
        frame_size == features[2]
        fec == features[3]
        loss == features[4]
        Val(v) == [raised |-> FALSE, value |-> v]
    IN  CASE mdl.kind = "none" -> [raised |-> TRUE, value |-> 0]
          [] mdl.kind = "linear" ->
                Val(mdl.a * bitrate + mdl.b * frame_size + 10 * mdl.c * fec)
          [] mdl.kind = "peak" ->
                Val(IF bitrate = mdl.a /\ frame_size = mdl.b /\ fec = mdl.c
                    THEN 4 ELSE 1)
          [] mdl.kind = "lossaware" ->
                Val(IF loss < mdl.a * LossScale THEN bitrate
                    ELSE 100 * fec - bitrate)
          [] mdl.kind = "flaky" ->
                IF bitrate = mdl.a THEN [raised |-> TRUE, value |-> 0]
                ELSE Val(mdl.b * bitrate)
          [] mdl.kind = "constant" -> Val(mdl.a * 1000000000)

-----------------------------------------------------------------------------
(* ControllerPolicy: ml_controller, hybrid_controller *)

\* best_score before the first candidate: -1e9
InitialBestScore == -1000000000

\* the feature vector of one candidate
Features(cfg, loss) ==
    <<cfg.bitrate, cfg.frame_size, IF cfg.use_fec THEN 1 ELSE 0, loss>>

\* a candidate on which the predictor raises never beats the initial best_score
PredOf_sentinel(cfg, loss, mdl) ==
    LET p == Predict(mdl, Features(cfg, loss))
    IN  IF p.raised THEN InitialBestScore ELSE p.value

\* pred after the try/except around model.predict
PredOf(cfg, loss, mdl) ==
    LET p == Predict(mdl, Features(cfg, loss))
    IN  IF p.raised THEN 0 ELSE p.value

RECURSIVE MlLoop(_, _, _, _, _, _)
\* the for loop over the candidates from index i on, with the best so far
MlLoop(candidates, i, best, best_score, loss, mdl) ==
    IF i > Len(candidates) THEN best
    ELSE LET cfg == candidates[i]
             pred == PredOf(cfg, loss, mdl)
         IN  IF pred > best_score
             THEN MlLoop(candidates, i + 1, Some(cfg), pred, loss, mdl)
             ELSE MlLoop(candidates, i + 1, best, best_score, loss, mdl)

RECURSIVE MlLoopLast(_, _, _, _, _, _)
\* the loop with >= for >: the last of the best candidates wins
MlLoopLast(candidates, i, best, best_score, loss, mdl) ==
    IF i > Len(candidates) THEN best
    ELSE LET cfg == candidates[i]
             pred == PredOf(cfg, loss, mdl)
         IN  IF pred >= best_score
             THEN MlLoopLast(candidates, i + 1, Some(cfg), pred, loss, mdl)
             ELSE MlLoopLast(candidates, i + 1, best, best_score, loss, mdl)

ml_controller_last_wins(loss, mdl) ==
    MlLoopLast(generate_all_configs, 1, None, InitialBestScore, loss, mdl)

\* returns <<cfg>>, or <<>> (None) when no candidate beat the initial best_score
ml_controller(loss, mdl) ==
    MlLoop(generate_all_configs, 1, None, InitialBestScore, loss, mdl)

\* a hybrid that still asks the model at exactly 5.0
hybrid_controller_inclusive(loss, mdl) ==
    IF loss <= 5 * LossScale THEN ml_controller(loss, mdl)
    ELSE Some(static_controller(loss))

hybrid_controller(loss, mdl) ==
    IF loss < 5 * LossScale THEN ml_controller(loss, mdl)
    ELSE Some(static_controller(loss))

-----------------------------------------------------------------------------
(* SweepOrchestrator: the job list of main_script.run_experiment_parallel *)

MAX_FILES_TO_PROCESS == 20

BITRATES == <<8, 12, 16, 24, 32, 48>>

FRAME_SIZES == <<20, 40, 60>>

COMPLEXITIES == <<5, 9>>

FEC_STATUSES == <<TRUE, FALSE>>

\* [0, 1, 2, 3, 5, 7, 10] percent
PACKET_LOSSES == [i \in 1..7 |-> <<0, 1, 2, 3, 5, 7, 10>>[i] * LossScale]

\* An audio file is a path under CLEAN_AUDIO_DIR: its directory and its stem.
\* Every file rglob("*.flac") finds is named <stem>.flac, so its .name is
\* given by its stem.  Files of different directories may share a name.
AudioFileUniverse ==
    <<[dir |-> "a", stem |-> "x"], [dir |-> "a", stem |-> "y"],
      [dir |-> "b", stem |-> "x"], [dir |-> "b", stem |-> "y"]>>

\* What rglob may return: at most MaxFiles distinct paths.  The files found
\* are listed in one fixed order (the jobs of a sweep are handled alike, so
\* the other orders add nothing).
FileLists ==
    {SelectSeq(AudioFileUniverse, LAMBDA f : f \in S) :
        S \in {T \in SUBSET Range(AudioFileUniverse) : Cardinality(T) <= MaxFiles}}

\* audio_files[:MAX_FILES_TO_PROCESS]
FilesToProcess(files) ==
    SubSeq(files, 1, IF Len(files) < MAX_FILES_TO_PROCESS THEN Len(files)
                     ELSE MAX_FILES_TO_PROCESS)

\* the six nested loops that fill all_job_params
AllJobParams(files, bitrates, frame_sizes, complexities, fec_statuses, losses) ==
    Flatten([xi \in 1..Len(files) |->
      Flatten([bi \in 1..Len(bitrates) |->
        Flatten([fi \in 1..Len(frame_sizes) |->
          Flatten([ci \in 1..Len(complexities) |->
            Flatten([ki \in 1..Len(fec_statuses) |->
              [li \in 1..Len(losses) |->
                 [original_file |-> files[xi],
                  bitrate |-> bitrates[bi],
                  frame_size |-> frame_sizes[fi],
                  complexity |-> complexities[ci],
                  use_fec |-> fec_statuses[ki],
                  packet_loss_perc |-> losses[li]]]])])])])])

First(s) == <<Head(s)>>

\* The job list of the sweeps run here: the loops over the first bitrate,
\* frame size, complexity, FEC setting and loss only (one job per file, so
\* that the pool's interleavings stay enumerable).
JobList(files) ==
    AllJobParams(files, First(BITRATES), First(FRAME_SIZES), First(COMPLEXITIES),
                 First(FEC_STATUSES), First(PACKET_LOSSES))

\* the job list of the script
FullJobList(files) ==
    AllJobParams(files, BITRATES, FRAME_SIZES, COMPLEXITIES, FEC_STATUSES,
                 PACKET_LOSSES)

-----------------------------------------------------------------------------
(* QualityOracle as the worker sees it: what the external steps of one job   *)
(* do.  "ok": all succeed; "scorer_raise": pesq raises; "encode_fail",       *)
(* "decode_fail": opusenc / opusdec exit nonzero; "pipeline_raise":          *)
(* subprocess.run raises something other than CalledProcessError;            *)
(* "read_fail": sf.read raises; "rate_mismatch": a file is not 16 kHz.       *)

OracleOutcomes ==
    {"ok", "scorer_raise", "encode_fail", "decode_fail", "pipeline_raise",
     "read_fail", "rate_mismatch"}

\* the outcomes in which the oracle yields no score
OracleFailures ==
    {"encode_fail", "decode_fail", "pipeline_raise", "read_fail", "rate_mismatch"}

\* File names are strings, built as the code builds them.  Every path below
\* is a file of PROCESSED_AUDIO_DIR and is given by its name.

RECURSIVE NumDigits(_)
\* the number of decimal digits of n >= 0
NumDigits(n) == IF n < 10 THEN 1 ELSE 1 + NumDigits(n \div 10)

RECURSIVE Zeros(_)
Zeros(k) == IF k <= 0 THEN "" ELSE "0" \o Zeros(k - 1)

RECURSIVE FracDigits(_, _)
\* the digits after the point of frac / 10^width, as str(float) prints them:
\* no trailing zeros, but one digit at least
FracDigits(frac, width) ==
    IF frac = 0 THEN "0"
    ELSE IF frac % 10 = 0 THEN FracDigits(frac \div 10, width - 1)
    ELSE Zeros(width - NumDigits(frac)) \o ToString(frac)

\* str(x) of the float x = loss / LossScale, with `point` for its '.'
StrFloat(loss, point) ==
    LET m == IF loss < 0 THEN -loss ELSE loss
    IN  (IF loss < 0 THEN "-" ELSE "") \o ToString(m \div LossScale) \o point
            \o FracDigits(m % LossScale, NumDigits(LossScale - 1))

\* Whether simulated_loss_perc is a float: the harness passes on the float it
\* was given (the slider's value), the sweep the ints of PACKET_LOSSES.
IsFloatLoss(params) == params.original_file.dir = "processed_audio"

\* loss_str = str(simulated_loss_perc).replace('.', 'p')
LossStr(params) ==
    IF IsFloatLoss(params) THEN StrFloat(params.packet_loss_perc, "p")
    ELSE ToString(params.packet_loss_perc \div LossScale)

\* a file name that leaves the complexity out
OutputFilenameBase_no_complexity(params) ==
    params.original_file.stem
        \o "_b" \o ToString(params.bitrate) \o "_f" \o ToString(params.frame_size)
        \o "_" \o (IF params.use_fec THEN "fec" ELSE "nofec")
        \o "_l" \o LossStr(params)

\* f"{stem}_b{bitrate}_f{frame_size}_c{complexity}_{fec_str}_l{loss_str}"
OutputFilenameBase(params) ==
    params.original_file.stem
        \o "_b" \o ToString(params.bitrate) \o "_f" \o ToString(params.frame_size)
        \o "_c" \o ToString(params.complexity)
        \o "_" \o (IF params.use_fec THEN "fec" ELSE "nofec")
        \o "_l" \o LossStr(params)

\* PROCESSED_AUDIO_DIR / f"{output_filename_base}.wav"
FinalWavFile(params) == OutputFilenameBase(params) \o ".wav"

\* opus_wrapper.process_audio_file: the path, None, or an exception
process_audio_file(params, o) ==
    IF o = "pipeline_raise" THEN [raised |-> TRUE, value |-> None]
    ELSE IF o \in {"encode_fail", "decode_fail"}
         THEN [raised |-> FALSE, value |-> None]
         ELSE [raised |-> FALSE, value |-> Some(FinalWavFile(params))]

\* a scorer wrapper that yields no score when pesq raises
get_audio_quality_strict(original_file_path, processed_file_path, o) ==
    IF o \in {"read_fail", "rate_mismatch", "scorer_raise"} THEN None ELSE Some(3)

\* quality_analyzer.get_audio_quality: pesq's score (3 stands for any score
\* pesq returns), the floor 1.0 when pesq raises, or None
get_audio_quality(original_file_path, processed_file_path, o) ==
    IF o \in {"read_fail", "rate_mismatch"} THEN None
    ELSE IF o = "scorer_raise" THEN Some(1)
         ELSE Some(3)

\* the row of a job
ResultData(params, score) ==
    [original_file |-> params.original_file.stem,
     bitrate |-> params.bitrate,
     frame_size |-> params.frame_size,
     complexity |-> params.complexity,
     use_fec |-> params.use_fec,
     packet_loss_perc |-> params.packet_loss_perc,
     pesq_mos_score |-> score]

\* a worker that reports a row whatever the oracle did
run_single_combination_always(params, o) == Some(ResultData(params, 1))

\* main_script.run_single_combination: <<row>> or None
run_single_combination(params, o) ==
    LET processed_file == process_audio_file(params, o)
    IN  IF processed_file.raised THEN None
        ELSE IF processed_file.value = None THEN None
        ELSE LET score == get_audio_quality(params.original_file,
                                            processed_file.value[1], o)
             IN  IF score = None \/ score = Some(0) THEN None
                 ELSE Some(ResultData(params, score[1]))

-----------------------------------------------------------------------------
(* Idle values of each part, for the specifications that do not run it *)

CtlIdle ==
    /\ packet_loss = 0
    /\ model = NoModel
    /\ call = "idle"
    /\ ret = None
    /\ configs = <<>>

Workers == 1..NumCores

SweepIdle ==
    /\ audio_files = <<>>
    /\ all_job_params = <<>>
    /\ pcMain = "idle"
    /\ ended = ""
    /\ pool = None
    /\ poolState = "none"
    /\ poolJoined = FALSE
    /\ workers = [w \in Workers |-> [state |-> "none", job |-> 0]]
    /\ next_task = 1
    /\ outq = <<>>
    /\ consumed = 0
    /\ results_list = <<>>
    /\ results_from = <<>>
    /\ failed = {}
    /\ dataset = <<>>

DashIdle ==
    /\ dash_pc = "idle"
    /\ dash_i = 0
    /\ dash_shown = <<>>

RunIdle ==
    /\ run_kind = "none"
    /\ run_params = <<>>
    /\ run_controller = ""
    /\ run_pc = "idle"
    /\ processed_dir = {}
    /\ steps = <<>>
    /\ run_ret = [raised |-> FALSE, value |-> <<>>]

-----------------------------------------------------------------------------
(* Calls of the controllers, one action per function *)

\* losses within 1/LossScale of every whole percent up to MaxLossPct
LossValues == {p * LossScale + d : p \in 0..MaxLossPct, d \in {-1, 0, 1}}

CtlInit ==
    /\ packet_loss \in LossValues
    /\ model \in Models
    /\ call = "idle"
    /\ ret = None
    /\ configs = <<>>
    /\ SweepIdle
    /\ DashIdle
    /\ RunIdle

CallGenerateAllConfigs ==
    /\ call' = "generate_all_configs"
    /\ configs' = generate_all_configs
    /\ UNCHANGED <<packet_loss, model, ret, sweepVars, dashVars, runVars>>

CallStatic ==
    /\ call' = "static_controller"
    /\ ret' = Some(static_controller(packet_loss))
    /\ UNCHANGED <<packet_loss, model, configs, sweepVars, dashVars, runVars>>

CallHeuristic ==
    /\ call' = "heuristic_controller"
    /\ ret' = Some(heuristic_controller(packet_loss))
    /\ UNCHANGED <<packet_loss, model, configs, sweepVars, dashVars, runVars>>

CallMl ==
    /\ call' = "ml_controller"
    /\ ret' = ml_controller(packet_loss, model)
    /\ UNCHANGED <<packet_loss, model, configs, sweepVars, dashVars, runVars>>

CallHybrid ==
    /\ call' = "hybrid_controller"
    /\ ret' = hybrid_controller(packet_loss, model)
    /\ UNCHANGED <<packet_loss, model, configs, sweepVars, dashVars, runVars>>

CtlNext ==
    \/ CallGenerateAllConfigs
    \/ CallStatic
    \/ CallHeuristic
    \/ CallMl
    \/ CallHybrid

SpecControllers == CtlInit /\ [][CtlNext]_vars

-----------------------------------------------------------------------------
(* The sweep: main_script.py run as a script.  The main process runs         *)
(* run_experiment_parallel and then exits, which runs the atexit hook        *)
(* cleanup_pool; the pool's workers run run_single_combination.              *)

SweepInit ==
    /\ CtlIdle
    /\ DashIdle
    /\ RunIdle
    /\ audio_files \in FileLists
    /\ all_job_params = <<>>
    /\ pcMain = "start"
    /\ ended = ""
    /\ pool = None
    /\ poolState = "none"
    /\ poolJoined = FALSE
    /\ workers = [w \in Workers |-> [state |-> "none", job |-> 0]]
    /\ next_task = 1
    /\ outq = <<>>
    /\ consumed = 0
    /\ results_list = <<>>
    /\ results_from = <<>>
    /\ failed = {}
    /\ dataset = <<>>

\* lines 110-145: find the files, return if there are none, build the job list
BuildJobList ==
    /\ pcMain = "start"
    /\ IF audio_files = <<>>
       THEN /\ pcMain' = "returned"
            /\ ended' = "no_files"
            /\ UNCHANGED all_job_params
       ELSE /\ all_job_params' = JobList(FilesToProcess(audio_files))
            /\ pcMain' = "try"
            /\ UNCHANGED ended
    /\ UNCHANGED <<ctlVars, dashVars, runVars, audio_files, pool, poolState, poolJoined, workers,
                   next_task, outq, consumed, results_list, results_from,
                   failed, dataset>>

\* lines 149-153: pool = multiprocessing.Pool(...); jobs = pool.imap_unordered(...)
CreatePool ==
    /\ pcMain = "try"
    /\ pool' = Some("Pool")
    /\ poolState' = "run"
    /\ workers' = [w \in Workers |-> [state |-> "idle", job |-> 0]]
    /\ pcMain' = "iterating"
    /\ UNCHANGED <<ctlVars, dashVars, runVars, audio_files, all_job_params, ended, poolJoined,
                   next_task, outq, consumed, results_list, results_from,
                   failed, dataset>>

\* a worker takes the next task of the pool's task queue
StartJob(w) ==
    /\ poolState \in {"run", "closed"}
    /\ workers[w].state = "idle"
    /\ next_task <= Len(all_job_params)
    /\ workers' = [workers EXCEPT ![w] = [state |-> "busy", job |-> next_task]]
    /\ next_task' = next_task + 1
    /\ UNCHANGED <<ctlVars, dashVars, runVars, audio_files, all_job_params, pcMain, ended, pool,
                   poolState, poolJoined, outq, consumed, results_list,
                   results_from, failed, dataset>>

\* the worker's run_single_combination returns and its result is queued
\* a worker that appends its row to the result sequence itself
FinishJobAppends(w) ==
    /\ workers[w].state = "busy"
    /\ \E o \in OracleOutcomes :
          LET j == workers[w].job
              result == run_single_combination(all_job_params[j], o)
          IN  /\ outq' = Append(outq, [job |-> j, result |-> None])
              /\ failed' = IF o \in OracleFailures THEN failed \cup {j} ELSE failed
              /\ IF result # None
                 THEN /\ results_list' = Append(results_list, result[1])
                      /\ results_from' = Append(results_from, j)
                 ELSE UNCHANGED <<results_list, results_from>>
    /\ workers' = [workers EXCEPT ![w] = [state |-> "idle", job |-> 0]]
    /\ UNCHANGED <<ctlVars, dashVars, runVars, audio_files, all_job_params, pcMain, ended, pool,
                   poolState, poolJoined, next_task, consumed, dataset>>

FinishJob(w) ==
    /\ workers[w].state = "busy"
    /\ \E o \in OracleOutcomes :
          LET j == workers[w].job
          IN  /\ outq' = Append(outq,
                    [job |-> j,
                     result |-> run_single_combination(all_job_params[j], o)])
              /\ failed' = IF o \in OracleFailures THEN failed \cup {j} ELSE failed
    /\ workers' = [workers EXCEPT ![w] = [state |-> "idle", job |-> 0]]
    /\ UNCHANGED <<ctlVars, dashVars, runVars, audio_files, all_job_params, pcMain, ended, pool,
                   poolState, poolJoined, next_task, consumed, results_list,
                   results_from, dataset>>

\* a worker of a closed pool finds the task queue finished and exits
WorkerExit(w) ==
    /\ poolState = "closed"
    /\ workers[w].state = "idle"
    /\ next_task > Len(all_job_params)
    /\ workers' = [workers EXCEPT ![w] = [state |-> "exited", job |-> 0]]
    /\ UNCHANGED <<ctlVars, dashVars, runVars, audio_files, all_job_params, pcMain, ended, pool,
                   poolState, poolJoined, next_task, outq, consumed,
                   results_list, results_from, failed, dataset>>

\* a loop body that drops every row once one job has failed
ConsumeResultStopAtFailure ==
    /\ pcMain = "iterating"
    /\ consumed < Len(all_job_params)
    /\ outq # <<>>
    /\ LET result == Head(outq).result
       IN  IF result # None /\ consumed = Len(results_list)
           THEN /\ results_list' = Append(results_list, result[1])
                /\ results_from' = Append(results_from, Head(outq).job)
           ELSE UNCHANGED <<results_list, results_from>>
    /\ outq' = Tail(outq)
    /\ consumed' = consumed + 1
    /\ UNCHANGED <<ctlVars, dashVars, runVars, audio_files, all_job_params, pcMain, ended, pool,
                   poolState, poolJoined, workers, next_task, failed, dataset>>

\* lines 156-158: one iteration of `for result in tqdm(jobs, ...)`
ConsumeResult ==
    /\ pcMain = "iterating"
    /\ consumed < Len(all_job_params)
    /\ outq # <<>>
    /\ LET result == Head(outq).result
       IN  IF result # None
           THEN /\ results_list' = Append(results_list, result[1])
                /\ results_from' = Append(results_from, Head(outq).job)
           ELSE UNCHANGED <<results_list, results_from>>
    /\ outq' = Tail(outq)
    /\ consumed' = consumed + 1
    /\ UNCHANGED <<ctlVars, dashVars, runVars, audio_files, all_job_params, pcMain, ended, pool,
                   poolState, poolJoined, workers, next_task, failed, dataset>>

\* line 161: the loop has seen every result; pool.close()
PoolClose ==
    /\ pcMain = "iterating"
    /\ consumed = Len(all_job_params)
    /\ poolState' = "closed"
    /\ pcMain' = "joining"
    /\ UNCHANGED <<ctlVars, dashVars, runVars, audio_files, all_job_params, ended, pool,
                   poolJoined, workers, next_task, outq, consumed,
                   results_list, results_from, failed, dataset>>

\* lines 162-163: pool.join() returns once every worker has exited; pool = None
PoolJoin ==
    /\ pcMain = "joining"
    /\ \A w \in Workers : workers[w].state = "exited"
    /\ poolJoined' = TRUE
    /\ pool' = None
    /\ pcMain' = "save"
    /\ UNCHANGED <<ctlVars, dashVars, runVars, audio_files, all_job_params, ended, poolState,
                   workers, next_task, outq, consumed, results_list,
                   results_from, failed, dataset>>

\* lines 174-184: write the CSV if there are rows, and return
SaveResults ==
    /\ pcMain = "save"
    /\ dataset' = IF results_list # <<>> THEN Some(results_list) ELSE <<>>
    /\ pcMain' = "returned"
    /\ ended' = "normal"
    /\ UNCHANGED <<ctlVars, dashVars, runVars, audio_files, all_job_params, pool, poolState,
                   poolJoined, workers, next_task, outq, consumed,
                   results_list, results_from, failed>>

\* the main process is inside the try block
InTry == pcMain \in {"try", "iterating", "joining"}

\* an interrupt handler that saves the rows collected so far
KeyboardInterruptSavesPartial ==
    /\ InTry
    /\ pcMain' = "returned"
    /\ ended' = "interrupt"
    /\ dataset' = IF results_list # <<>> THEN Some(results_list) ELSE <<>>
    /\ UNCHANGED <<ctlVars, dashVars, runVars, audio_files, all_job_params, pool, poolState,
                   poolJoined, workers, next_task, outq, consumed,
                   results_list, results_from, failed>>

\* lines 165-168: the operator's Ctrl-C reaches the main process in the try block
KeyboardInterrupt ==
    /\ InTry
    /\ pcMain' = "returned"
    /\ ended' = "interrupt"
    /\ UNCHANGED <<ctlVars, dashVars, runVars, audio_files, all_job_params, pool, poolState,
                   poolJoined, workers, next_task, outq, consumed,
                   results_list, results_from, failed, dataset>>

\* Ctrl-C while the main process is outside the try block (before it, or
\* while the results are saved): nothing catches it and the script ends
UncaughtInterrupt ==
    /\ pcMain \in {"start", "save"}
    /\ pcMain' = "returned"
    /\ ended' = "uncaught_interrupt"
    /\ UNCHANGED <<ctlVars, dashVars, runVars, audio_files, all_job_params, pool, poolState,
                   poolJoined, workers, next_task, outq, consumed,
                   results_list, results_from, failed, dataset>>

\* lines 169-172: anything in the try block raises an Exception
LoopException ==
    /\ InTry
    /\ pcMain' = "returned"
    /\ ended' = "exception"
    /\ UNCHANGED <<ctlVars, dashVars, runVars, audio_files, all_job_params, pool, poolState,
                   poolJoined, workers, next_task, outq, consumed,
                   results_list, results_from, failed, dataset>>

\* an exit hook that leaves the pool alone
CleanupTerminateNothing ==
    /\ pcMain = "returned"
    /\ pcMain' = "exited"
    /\ UNCHANGED <<ctlVars, dashVars, runVars, audio_files, all_job_params, ended, pool,
                   poolState, poolJoined, workers, next_task, outq, consumed,
                   results_list, results_from, failed, dataset>>

\* an exit hook that closes the pool where cleanup_pool terminates it
CleanupClose ==
    /\ pcMain = "returned"
    /\ IF pool # None
       THEN /\ poolState' = "closed"
            /\ pcMain' = "cleanup_join"
       ELSE /\ pcMain' = "exited"
            /\ UNCHANGED poolState
    /\ UNCHANGED <<ctlVars, dashVars, runVars, audio_files, all_job_params, ended, pool,
                   poolJoined, workers, next_task, outq, consumed, results_list,
                   results_from, failed, dataset>>

\* The script ends and atexit runs cleanup_pool, lines 38-43: nothing to do
\* when pool is None, else pool.terminate(), which stops every worker where
\* it is and abandons the tasks not yet done.
CleanupTerminate ==
    /\ pcMain = "returned"
    /\ IF pool # None
       THEN /\ poolState' = "terminated"
            /\ workers' = [w \in Workers |->
                             IF workers[w].state \in {"idle", "busy"}
                             THEN [state |-> "killed", job |-> 0]
                             ELSE workers[w]]
            /\ pcMain' = "cleanup_join"
       ELSE /\ pcMain' = "exited"
            /\ UNCHANGED <<poolState, workers>>
    /\ UNCHANGED <<ctlVars, dashVars, runVars, audio_files, all_job_params, ended, pool,
                   poolJoined, next_task, outq, consumed, results_list,
                   results_from, failed, dataset>>

\* cleanup_pool, lines 44-45: pool.join() returns once no worker is alive;
\* the process exits
CleanupJoin ==
    /\ pcMain = "cleanup_join"
    /\ \A w \in Workers : workers[w].state \in {"exited", "killed"}
    /\ poolJoined' = TRUE
    /\ pcMain' = "exited"
    /\ UNCHANGED <<ctlVars, dashVars, runVars, audio_files, all_job_params, ended, pool,
                   poolState, workers, next_task, outq, consumed,
                   results_list, results_from, failed, dataset>>

\* the steps of the main process
\* The exit status of the script.  Nothing in it calls sys.exit, so the status
\* is 0 whenever run_experiment_parallel returns, whichever return it takes,
\* and the interpreter's nonzero status when a KeyboardInterrupt was caught
\* nowhere.
ExitCode == IF ended = "uncaught_interrupt" THEN 1 ELSE 0

MainStep ==
    \/ BuildJobList
    \/ CreatePool
    \/ ConsumeResult
    \/ PoolClose
    \/ PoolJoin
    \/ SaveResults
    \/ CleanupTerminate
    \/ CleanupJoin

WorkerStep == \E w \in Workers : StartJob(w) \/ FinishJob(w) \/ WorkerExit(w)

SweepNext ==
    \/ MainStep
    \/ WorkerStep
    \/ KeyboardInterrupt
    \/ UncaughtInterrupt
    \/ LoopException

SpecSweep == SweepInit /\ [][SweepNext]_vars

\* The main process, when it can take a step, takes one; a worker of a
\* closed pool that has nothing left to do exits.  Nothing is assumed about
\* how long a job takes.
FairSweep ==
    /\ SpecSweep
    /\ WF_vars(MainStep)
    /\ \A w \in Workers : WF_vars(WorkerExit(w))

-----------------------------------------------------------------------------
(* EvaluationHarness: dashboard_engine.run_audio_simulation, and the loop of *)
(* dashboard.py that runs it for the four controllers.                       *)

\* what the external steps of one run do: as for a job of the sweep, and
\* "unreadable_input": sf.read(audio_path) raises on the uploaded file
HarnessOutcomes == OracleOutcomes \cup {"unreadable_input"}

Raised == [raised |-> TRUE, value |-> None]

Returned(v) == [raised |-> FALSE, value |-> v]

\* a dispatch that takes Static's decision for a controller_type it does not know
SelectController_default(loss, controller_type, mdl) ==
    CASE controller_type = "heuristic" -> Returned(Some(heuristic_controller(loss)))
      [] controller_type = "ml_adaptive" -> Returned(ml_controller(loss, mdl))
      [] controller_type = "hybrid" -> Returned(hybrid_controller(loss, mdl))
      [] OTHER -> Returned(Some(static_controller(loss)))

\* lines 106-115: <<cfg>> or None from the chosen controller; the ValueError
\* of an unknown controller_type is [raised |-> TRUE]
SelectController(loss, controller_type, mdl) ==
    CASE controller_type = "static" -> Returned(Some(static_controller(loss)))
      [] controller_type = "heuristic" -> Returned(Some(heuristic_controller(loss)))
      [] controller_type = "ml_adaptive" -> Returned(ml_controller(loss, mdl))
      [] controller_type = "hybrid" -> Returned(hybrid_controller(loss, mdl))
      [] OTHER -> Raised

\* run_audio_simulation: the metrics, None, or an exception.  Nothing in it
\* catches: sf.read, cfg['bitrate'] on a None cfg, and process_audio_file's
\* exceptions all propagate.
run_audio_simulation(loss, controller_type, mdl, o) ==
    IF o = "unreadable_input" THEN Raised
    ELSE LET sel == SelectController(loss, controller_type, mdl)
         IN  IF sel.raised THEN Raised
             ELSE IF sel.value = None THEN Raised
             ELSE LET cfg == sel.value[1]
                      temp_input == [original_file |-> [dir |-> "processed_audio",
                                                        stem |-> "temp_input"],
                                     bitrate |-> cfg.bitrate,
                                     frame_size |-> cfg.frame_size,
                                     complexity |-> cfg.complexity,
                                     use_fec |-> cfg.use_fec,
                                     packet_loss_perc |-> loss]
                      processed_file == process_audio_file(temp_input, o)
                  IN  IF processed_file.raised THEN Raised
                      ELSE IF processed_file.value = None THEN Returned(None)
                      ELSE Returned(Some(
                             [mos |-> get_audio_quality(temp_input.original_file,
                                                        processed_file.value[1], o),
                              config |-> cfg,
                              processed_file |-> processed_file.value[1]]))

\* dashboard.py line 34
controllers == <<"static", "heuristic", "ml_adaptive", "hybrid">>

\* the positions of the packet-loss slider that are whole percents
SliderValues == {p * LossScale : p \in 0..MaxLossPct}

\* what load_model() returned: None, or one predictor of each kind
LoadedModels ==
    {NoModel,
     [kind |-> "linear", a |-> 1, b |-> 0, c |-> 0],
     [kind |-> "lossaware", a |-> 5, b |-> 0, c |-> 0],
     [kind |-> "flaky", a |-> 48, b |-> 1, c |-> 0],
     [kind |-> "constant", a |-> -2, b |-> 0, c |-> 0]}

DashInit ==
    /\ packet_loss \in SliderValues
    /\ model \in LoadedModels
    /\ call = "idle"
    /\ ret = None
    /\ configs = <<>>
    /\ SweepIdle
    /\ RunIdle
    /\ dash_pc = "loop"
    /\ dash_i = 1
    /\ dash_shown = <<>>

\* dashboard.py lines 36-55: one iteration of the loop over the controllers.
\* An exception of run_audio_simulation, or of formatting a mos that is
\* None with :.3f, is caught nowhere and ends the script run.
RunController ==
    /\ dash_pc = "loop"
    /\ dash_i <= Len(controllers)
    /\ \E o \in HarnessOutcomes :
          LET ctrl == controllers[dash_i]
              metrics == run_audio_simulation(packet_loss, ctrl, model, o)
          IN  IF metrics.raised
              THEN /\ dash_pc' = "raised"
                   /\ UNCHANGED <<dash_i, dash_shown>>
              ELSE IF metrics.value = None
              THEN /\ dash_shown' = Append(dash_shown,
                          [ctrl |-> ctrl, shown |-> "Simulation failed", mos |-> 0])
                   /\ dash_i' = dash_i + 1
                   /\ UNCHANGED dash_pc
              ELSE IF metrics.value[1].mos = None
              THEN /\ dash_pc' = "raised"
                   /\ UNCHANGED <<dash_i, dash_shown>>
              ELSE /\ dash_shown' = Append(dash_shown,
                          [ctrl |-> ctrl, shown |-> "metrics",
                           mos |-> metrics.value[1].mos[1]])
                   /\ dash_i' = dash_i + 1
                   /\ UNCHANGED dash_pc
    /\ UNCHANGED <<ctlVars, sweepVars, runVars>>

\* line 57: the loop is over
AllControllersCompleted ==
    /\ dash_pc = "loop"
    /\ dash_i > Len(controllers)
    /\ dash_pc' = "done"
    /\ UNCHANGED <<ctlVars, sweepVars, runVars, dash_i, dash_shown>>

DashNext == RunController \/ AllControllersCompleted

SpecDashboard == DashInit /\ [][DashNext]_vars

-----------------------------------------------------------------------------
(* One run of the codec pipeline, external step by external step: a job of   *)
(* the sweep (run_single_combination) or a run of the harness                *)
(* (run_audio_simulation), through opus_wrapper.process_audio_file and       *)
(* quality_analyzer.get_audio_quality.  Each action is one external step     *)
(* and the code that follows it up to the next external step or the return.  *)

\* what subprocess.run(..., check=True) of opusenc / opusdec does: "ok"; exit
\* status nonzero (CalledProcessError) with no output file left ("fail") or
\* with the output file it had begun left behind ("fail_partial"); "raise":
\* an exception that is not CalledProcessError (the executable is missing)
SubprocessResults == {"ok", "fail", "fail_partial", "raise"}

\* what the steps of get_audio_quality do, as in OracleOutcomes
ScorerResults == {"ok", "scorer_raise", "read_fail", "rate_mismatch"}

\* PROCESSED_AUDIO_DIR / f"{output_filename_base}.opus"
IntermediateOpusFile(params) == OutputFilenameBase(params) \o ".opus"

\* PROCESSED_AUDIO_DIR / f"temp_input_{ms}.wav", and its use as original_file
TempInputFile == "temp_input.wav"

TempInput == [dir |-> "processed_audio", stem |-> "temp_input"]

\* the controller_type arguments: the four the code knows and one it does not
ControllerTypeArgs == Range(controllers) \cup {"unknown"}

\* the packet_loss_perc arguments of run_audio_simulation: any float
SimulationLosses ==
    LossValues \cup {100 * LossScale + d : d \in {-1, 0, 1}} \cup {150 * LossScale}

\* The source files of the jobs run here: two files of different directories
\* with one stem, and stems that end like the names the code builds.
NamedFiles ==
    <<[dir |-> "a", stem |-> "x"], [dir |-> "b", stem |-> "x"],
      [dir |-> "a", stem |-> "x_b8"], [dir |-> "a", stem |-> "x_b8_f20_c5_nofec_l1"]>>

\* an entry of the history
Step(s, outcome, loss) == [step |-> s, outcome |-> outcome, loss |-> loss]

RunInit ==
    /\ call = "idle"
    /\ ret = None
    /\ configs = <<>>
    /\ SweepIdle
    /\ DashIdle
    /\ processed_dir = {}
    /\ steps = <<>>
    /\ run_ret = Returned(None)
    /\ \/ /\ run_kind = "job"
          /\ run_params \in {Some(p) : p \in Range(FullJobList(NamedFiles))}
          /\ run_controller = ""
          /\ run_pc = "encode"
          /\ packet_loss = 0
          /\ model = NoModel
       \/ /\ run_kind = "simulation"
          /\ run_params = None
          /\ run_controller \in ControllerTypeArgs
          /\ run_pc = "select"
          /\ packet_loss \in SimulationLosses
          /\ model \in LoadedModels

\* process_audio_file returned None, with dir the directory it left: the job
\* returns None; the harness unlinks temp_input and returns None
ProcessedFileIsNone(dir) ==
    /\ run_pc' = "returned"
    /\ run_ret' = Returned(None)
    /\ processed_dir' = IF run_kind = "simulation" THEN dir \ {TempInputFile} ELSE dir

\* process_audio_file raised: the job's except clause returns None, the
\* harness lets the exception through
ProcessAudioFileRaised ==
    /\ run_pc' = IF run_kind = "job" THEN "returned" ELSE "raised"
    /\ run_ret' = IF run_kind = "job" THEN Returned(None) ELSE Raised
    /\ UNCHANGED processed_dir

\* run_audio_simulation up to the call of process_audio_file: sf.read of the
\* input, the write of temp_input, the choice of the controller
SelectStep ==
    /\ run_pc = "select"
    /\ \E readable \in BOOLEAN :
          IF ~readable
          THEN /\ run_pc' = "raised"
               /\ run_ret' = Raised
               /\ UNCHANGED <<run_params, processed_dir, steps>>
          ELSE LET sel == SelectController(packet_loss, run_controller, model)
               IN  /\ processed_dir' = processed_dir \cup {TempInputFile}
                   /\ steps' = IF sel.raised THEN steps
                               ELSE Append(steps, Step("controller", "ok", packet_loss))
                   /\ IF sel.raised \/ sel.value = None
                      THEN /\ run_pc' = "raised"
                           /\ run_ret' = Raised
                           /\ UNCHANGED run_params
                      ELSE /\ run_params' =
                                Some([original_file |-> TempInput,
                                      bitrate |-> sel.value[1].bitrate,
                                      frame_size |-> sel.value[1].frame_size,
                                      complexity |-> sel.value[1].complexity,
                                      use_fec |-> sel.value[1].use_fec,
                                      packet_loss_perc |-> packet_loss])
                           /\ run_pc' = "encode"
                           /\ UNCHANGED run_ret
    /\ UNCHANGED <<ctlVars, sweepVars, dashVars, run_kind, run_controller>>

\* an encode step after whose failure the run goes on to decode
EncodeStepContinues ==
    /\ run_pc = "encode"
    /\ \E r \in SubprocessResults :
          LET params == run_params[1]
          IN  /\ steps' = Append(steps, Step("encode", r, params.packet_loss_perc))
              /\ processed_dir' = IF r \in {"ok", "fail_partial"}
                                  THEN processed_dir \cup {IntermediateOpusFile(params)}
                                  ELSE processed_dir
              /\ run_pc' = "decode"
              /\ UNCHANGED run_ret
    /\ UNCHANGED <<ctlVars, sweepVars, dashVars, run_kind, run_params, run_controller>>

\* process_audio_file lines 42-81: the run of opusenc
EncodeStep ==
    /\ run_pc = "encode"
    /\ \E r \in SubprocessResults :
          LET params == run_params[1]
              opus == IntermediateOpusFile(params)
          IN  /\ steps' = Append(steps, Step("encode", r, params.packet_loss_perc))
              /\ CASE r = "ok" ->
                        /\ processed_dir' = processed_dir \cup {opus}
                        /\ run_pc' = "decode"
                        /\ UNCHANGED run_ret
                   [] r = "fail" -> ProcessedFileIsNone(processed_dir)
                   [] r = "fail_partial" -> ProcessedFileIsNone(processed_dir \cup {opus})
                   [] r = "raise" -> ProcessAudioFileRaised
    /\ UNCHANGED <<ctlVars, sweepVars, dashVars, run_kind, run_params, run_controller>>

\* process_audio_file lines 84-117: the run of opusdec with --packet-loss,
\* and the unlink of the intermediate file
DecodeStep ==
    /\ run_pc = "decode"
    /\ \E r \in SubprocessResults :
          LET params == run_params[1]
              opus == IntermediateOpusFile(params)
              wav == FinalWavFile(params)
          IN  /\ steps' = Append(steps, Step("decode", r, params.packet_loss_perc))
              /\ CASE r = "ok" ->
                        /\ processed_dir' = (processed_dir \cup {wav}) \ {opus}
                        /\ run_pc' = "score"
                        /\ UNCHANGED run_ret
                   [] r = "fail" -> ProcessedFileIsNone(processed_dir \ {opus})
                   [] r = "fail_partial" ->
                        ProcessedFileIsNone((processed_dir \cup {wav}) \ {opus})
                   [] r = "raise" -> ProcessAudioFileRaised
    /\ UNCHANGED <<ctlVars, sweepVars, dashVars, run_kind, run_params, run_controller>>

\* get_audio_quality on the decoded file and what the caller does with the
\* score: run_single_combination lines 68-95, run_audio_simulation lines 132-148
ScoreStep ==
    /\ run_pc = "score"
    /\ \E o \in ScorerResults :
          LET params == run_params[1]
              wav == FinalWavFile(params)
              score == get_audio_quality(params.original_file, wav, o)
          IN  /\ steps' = Append(steps, Step("score", o, params.packet_loss_perc))
              /\ run_pc' = "returned"
              /\ IF run_kind = "job"
                 THEN /\ processed_dir' = processed_dir \ {wav}
                      /\ run_ret' = IF score = None \/ score = Some(0)
                                    THEN Returned(None)
                                    ELSE Returned(Some(ResultData(params, score[1])))
                 ELSE /\ processed_dir' = processed_dir \ {TempInputFile}
                      /\ run_ret' = Returned(Some(
                             [mos |-> score,
                              config |-> Config(params.bitrate, params.frame_size,
                                                params.complexity, params.use_fec),
                              processed_file |-> wav]))
    /\ UNCHANGED <<ctlVars, sweepVars, dashVars, run_kind, run_params, run_controller>>

RunNext == SelectStep \/ EncodeStep \/ DecodeStep \/ ScoreStep

SpecPipeline == RunInit /\ [][RunNext]_vars

-----------------------------------------------------------------------------
(* The claims *)

\* the grid's i-th entry when bitrate is the outermost loop, then frame_size,
\* then complexity, and use_fec (false, then true) the innermost
C1_EntryAt(i) ==
    [bitrate |-> <<8, 12, 16, 24, 32, 48>>[((i - 1) \div 12) + 1],
     frame_size |-> <<20, 40, 60>>[(((i - 1) \div 4) % 3) + 1],
     complexity |-> <<5, 9>>[(((i - 1) \div 2) % 2) + 1],
     use_fec |-> ((i - 1) % 2 = 1)]

\* C1: every call of generate_all_configs returns 72 pairwise distinct
\* entries that cover every combination of bitrate, frame_size, complexity
\* and use_fec, in the same order: bitrate outermost, use_fec innermost.
C1_GridComplete ==
    call = "generate_all_configs" =>
        /\ Len(configs) = 72
        /\ Cardinality(Range(configs)) = 72
        /\ Range(configs) = [bitrate : {8, 12, 16, 24, 32, 48},
                             frame_size : {20, 40, 60},
                             complexity : {5, 9},
                             use_fec : BOOLEAN]
        /\ \A i \in 1..72 : configs[i] = C1_EntryAt(i)

C1_Witness ==
    /\ call = "generate_all_configs"
    /\ Len(configs) = 72
    /\ configs[1] = Config(8, 20, 5, FALSE)
    /\ configs[72] = Config(48, 60, 9, TRUE)

\* C2: heuristic_controller returns frame_size 20, complexity 5, no FEC, and
\* bitrate 48 when loss < 2, 24 when 2 <= loss < 5, 16 when 5 <= loss < 10,
\* 12 when loss >= 10.
C2_HeuristicBands ==
    call = "heuristic_controller" =>
        /\ Len(ret) = 1
        /\ ret[1].frame_size = 20
        /\ ret[1].complexity = 5
        /\ ret[1].use_fec = FALSE
        /\ packet_loss < 2 * LossScale => ret[1].bitrate = 48
        /\ 2 * LossScale <= packet_loss /\ packet_loss < 5 * LossScale
              => ret[1].bitrate = 24
        /\ 5 * LossScale <= packet_loss /\ packet_loss < 10 * LossScale
              => ret[1].bitrate = 16
        /\ packet_loss >= 10 * LossScale => ret[1].bitrate = 12

C2_Witness ==
    /\ call = "heuristic_controller"
    /\ packet_loss = 5 * LossScale
    /\ ret = Some(Config(16, 20, 5, FALSE))

\* C3: hybrid_controller returns what ml_controller returns for the same loss
\* and model when loss < 5.0, and what static_controller returns when
\* loss >= 5.0, so also at exactly 5.0.
C3_HybridDelegates ==
    call = "hybrid_controller" =>
        /\ packet_loss < 5 * LossScale => ret = ml_controller(packet_loss, model)
        /\ packet_loss >= 5 * LossScale => ret = Some(static_controller(packet_loss))

\* at exactly 5.0 the two delegates differ and Static's decision is returned
C3_Witness ==
    /\ call = "hybrid_controller"
    /\ packet_loss = 5 * LossScale
    /\ ret = Some(Config(32, 20, 5, FALSE))
    /\ ml_controller(packet_loss, model) # ret
    /\ ml_controller(packet_loss, model) # None

\* the index in the grid of a grid entry
C4_IndexOf(cfg) ==
    CHOOSE i \in 1..Len(generate_all_configs) : generate_all_configs[i] = cfg

\* C4: for every loss and every predictor ml_controller returns a grid entry
\* whose score is the maximum over the grid, and among the entries with the
\* maximum score the first in grid-generation order.  (The score of a
\* candidate on which the predictor raises is taken as 0, as the code does.)
C4_MlReturnsFirstArgmax ==
    call = "ml_controller" =>
        /\ ret # None
        /\ ret[1] \in Range(generate_all_configs)
        /\ \A i \in 1..Len(generate_all_configs) :
              LET other == PredOf(generate_all_configs[i], packet_loss, model)
                  mine == PredOf(ret[1], packet_loss, model)
              IN  /\ other <= mine
                  /\ other = mine => C4_IndexOf(ret[1]) <= i

\* C5: static_controller returns {32, 20, 5, no FEC} whatever the loss.
C5_StaticIgnoresLoss ==
    call = "static_controller" => ret = Some(Config(32, 20, 5, FALSE))

C5_Witness ==
    /\ call = "static_controller"
    /\ packet_loss = 7 * LossScale
    /\ ret = Some(Config(32, 20, 5, FALSE))

\* the jobs whose collected rows are in results_list
C6_Collected == {results_from[k] : k \in 1..Len(results_from)}

\* C6: whatever subset of the jobs the oracle fails for and however the
\* workers' completions interleave, no row is collected for a failed job,
\* every collected row is the row of its job, and once the loop has seen
\* every result there is a row for every job that did not fail.
C6_FailureIsolation ==
    /\ Len(results_list) = Len(results_from)
    /\ \A k \in 1..Len(results_from) :
          LET job == all_job_params[results_from[k]]
              row == results_list[k]
          IN  /\ results_from[k] \notin failed
              /\ row.original_file = job.original_file.stem
              /\ row.bitrate = job.bitrate
              /\ row.frame_size = job.frame_size
              /\ row.complexity = job.complexity
              /\ row.use_fec = job.use_fec
              /\ row.packet_loss_perc = job.packet_loss_perc
              /\ row.pesq_mos_score \in {1, 3}
    /\ pcMain \notin {"start", "try"} /\ consumed = Len(all_job_params)
          => C6_Collected = (1..Len(all_job_params)) \ failed

\* a sweep of three jobs that ended normally, in which one job failed and
\* the other two completed out of submission order
C6_Witness ==
    /\ ended = "normal"
    /\ Len(all_job_params) = 3
    /\ Cardinality(failed) = 1
    /\ Len(results_from) = 2
    /\ results_from[1] > results_from[2]

\* C7: once the pool has been created, the process never ends with the pool
\* up: when it has exited, on whichever path the sweep ended, the pool is
\* closed or terminated and joined, no worker is alive and no task can be
\* started.
C7_PoolTornDown ==
    pcMain = "exited" /\ poolState # "none" =>
        /\ poolState \in {"closed", "terminated"}
        /\ poolJoined
        /\ \A w \in Workers : workers[w].state \in {"exited", "killed"}
        /\ ~ENABLED WorkerStep

\* the sweep ended by an exception while a worker was running a job
C7_Witness ==
    /\ pcMain = "exited"
    /\ ended = "exception"
    /\ poolState = "terminated"
    /\ poolJoined
    /\ next_task > 1
    /\ consumed = 0
    /\ outq = <<>>

C8_NoWorkerRunning == \A w \in Workers : workers[w].state \notin {"idle", "busy"}

C8_Cancelled == ended \in {"interrupt", "uncaught_interrupt"}

\* C8: if the operator cancels the sweep, whatever the number of jobs handed
\* to workers by then, the process reaches its exit with the teardown done
\* and no worker running, and until then the main process can always take a
\* step (it never waits for a worker that waits for it).
C8_CancelReachesTeardown ==
    /\ [](C8_Cancelled => (pcMain = "exited" \/ ENABLED MainStep))
    /\ C8_Cancelled ~> (pcMain = "exited" /\ poolJoined = (poolState # "none")
                                          /\ C8_NoWorkerRunning)

\* cancelled after one of three jobs was handed out and while it was running
C8_Witness ==
    /\ ended = "interrupt"
    /\ pcMain = "exited"
    /\ Len(all_job_params) = 3
    /\ next_task = 2
    /\ outq = <<>>
    /\ poolState = "terminated"
    /\ C8_NoWorkerRunning

\* the key of a row
C9_Key(row) ==
    <<row.original_file, row.bitrate, row.frame_size, row.complexity,
      row.use_fec, row.packet_loss_perc>>

\* C9: a job that succeeds contributes exactly one row, a failed job none,
\* and no two collected rows share the key (source_id, bitrate, frame_size,
\* complexity, use_fec, packet_loss_perc).
C9_OneRowPerKey ==
    /\ \A k1, k2 \in 1..Len(results_from) :
          k1 # k2 => results_from[k1] # results_from[k2]
    /\ \A k \in 1..Len(results_from) : results_from[k] \notin failed
    /\ \A k1, k2 \in 1..Len(results_list) :
          k1 # k2 => C9_Key(results_list[k1]) # C9_Key(results_list[k2])

\* C10: in the loop over the four controllers, a failed evaluation never
\* raises out of the loop, and when the loop is over every controller has
\* been evaluated and has its outcome shown.
C10_LoopSurvivesFailures ==
    /\ dash_pc # "raised"
    /\ dash_pc = "done" => Len(dash_shown) = Len(controllers)

\* C11: when the loaded model is None, ml_controller and hybrid_controller
\* return a Config for every loss (nothing is raised, nothing is None): the
\* first grid entry from ml_controller, and from hybrid_controller that entry
\* below 5.0 and Static's decision from 5.0 on.
C11_NoModelFallback ==
    model = NoModel =>
        /\ call = "ml_controller" => ret = Some(Config(8, 20, 5, FALSE))
        /\ call = "hybrid_controller" =>
              ret = IF packet_loss < 5 * LossScale
                    THEN Some(Config(8, 20, 5, FALSE))
                    ELSE Some(Config(32, 20, 5, FALSE))

\* hybrid_controller without a model, just below 5.0
C11_Witness ==
    /\ model = NoModel
    /\ call = "hybrid_controller"
    /\ packet_loss = 5 * LossScale - 1
    /\ ret = Some(Config(8, 20, 5, FALSE))

\* C12: in ml_controller a candidate on which the predictor raises is scored
\* 0 and stays in the argmax: it is the one returned exactly when 0 is
\* strictly greater than the score of every earlier candidate and at least
\* the score of every later candidate.
C12_RaisingCandidateScoresZero ==
    call = "ml_controller" =>
        \A i \in 1..Len(generate_all_configs) :
            LET cfg == generate_all_configs[i]
                Score(j) == PredOf(generate_all_configs[j], packet_loss, model)
            IN  Predict(model, Features(cfg, packet_loss)).raised =>
                   /\ Score(i) = 0
                   /\ (ret = Some(cfg)) <=>
                         /\ \A j \in 1..(i - 1) : 0 > Score(j)
                         /\ \A j \in (i + 1)..Len(generate_all_configs) : 0 >= Score(j)

\* the predictor raises on bitrate 16 and scores the others below 0: the
\* first candidate with bitrate 16 is returned, after 24 scored candidates
C12_Witness ==
    /\ call = "ml_controller"
    /\ model = [kind |-> "flaky", a |-> 16, b |-> -1, c |-> 0]
    /\ ret = Some(Config(16, 20, 5, FALSE))
    /\ Predict(model, Features(ret[1], packet_loss)).raised

\* C13: run_audio_simulation called with a controller_type it does not know
\* ends with an error; no controller decides in its place, and no encode,
\* decode or scoring step is run for that call.
C13_UnknownControllerFails ==
    run_kind = "simulation" /\ run_controller \notin Range(controllers)
                            /\ run_pc # "select" =>
        /\ run_pc = "raised"
        /\ run_ret = Raised
        /\ run_params = None
        /\ steps = <<>>

\* the input was read and temp_input written, then the dispatch raised
C13_Witness ==
    /\ run_kind = "simulation"
    /\ run_controller = "unknown"
    /\ run_pc = "raised"
    /\ TempInputFile \in processed_dir
    /\ steps = <<>>

\* process_audio_file has returned (a path or None) in the run
C14_ProcessAudioFileReturned ==
    /\ steps # <<>>
    /\ LET last == steps[Len(steps)]
       IN  \/ last.step = "encode" /\ last.outcome \in {"fail", "fail_partial"}
           \/ last.step = "decode" /\ last.outcome # "raise"
           \/ last.step = "score"

\* C14: once process_audio_file has returned, on the success, the encode
\* failure and the decode failure path, its intermediate .opus file does not
\* exist; once a job of the sweep has returned, succeeded or failed, its
\* decoded .wav file does not exist either.
C14_IntermediatesRemoved ==
    /\ C14_ProcessAudioFileReturned =>
          IntermediateOpusFile(run_params[1]) \notin processed_dir
    /\ run_kind = "job" /\ run_pc = "returned" =>
          FinalWavFile(run_params[1]) \notin processed_dir

C16_LossWithinRange ==
    \A i \in 1..Len(steps) :
        steps[i].step \in {"controller", "decode"} =>
            0 <= steps[i].loss /\ steps[i].loss <= 100 * LossScale

\* C20: within one job or harness run the external steps come in a fixed
\* order, each gated on the one before: encode first, decode only after an
\* encode that succeeded, the scorer only after a decode that succeeded; a
\* failed encode or decode is the last external step of the run.
C20_StepsGated ==
    \A i \in 1..Len(steps) :
        /\ steps[i].step = "encode" => i = 1 \/ (i = 2 /\ steps[1].step = "controller")
        /\ steps[i].step = "decode" =>
              i > 1 /\ steps[i - 1].step = "encode" /\ steps[i - 1].outcome = "ok"
        /\ steps[i].step = "score" =>
              i > 1 /\ steps[i - 1].step = "decode" /\ steps[i - 1].outcome = "ok"
        /\ steps[i].step \in {"encode", "decode"} /\ steps[i].outcome # "ok" =>
              i = Len(steps) /\ run_pc \in {"returned", "raised"}

\* a harness run that went through all the steps
C20_Witness ==
    /\ run_kind = "simulation"
    /\ run_pc = "returned"
    /\ Len(steps) = 4
    /\ steps[2] = Step("encode", "ok", packet_loss)
    /\ steps[3] = Step("decode", "ok", packet_loss)
    /\ steps[4].step = "score"

\* C17: the sweep's process ends with exit code 0 when at least one sample
\* was collected (and the sweep ran to its end), and with a nonzero exit code
\* when no input audio was found.
C17_ExitCode ==
    pcMain = "exited" =>
        /\ ended = "normal" /\ results_list # <<>> => ExitCode = 0
        /\ audio_files = <<>> /\ ended = "no_files" => ExitCode # 0

\* a step of the coordinating process that appends the row of the result it
\* takes from the completion stream
C18_CoordinatorAppend ==
    /\ pcMain = "iterating"
    /\ outq # <<>>
    /\ Head(outq).result # None
    /\ results_list' = Append(results_list, Head(outq).result[1])
    /\ outq' = Tail(outq)
    /\ workers' = workers

\* every job has been run and no worker is running one
C18_WorkersFinished ==
    /\ next_task > Len(all_job_params)
    /\ \A w \in Workers : workers[w].state # "busy"

\* C18 as stated: the result sequence is written only by the coordinating
\* process and only after all workers have finished or been cancelled; no
\* worker appends to it or modifies it.
C18_WrittenAfterWorkersFinished ==
    [][results_list' # results_list => C18_CoordinatorAppend /\ C18_WorkersFinished]_vars

\* C18, amended: the result sequence is written only by the coordinating
\* process, which appends the row of each result as it takes it from the
\* completion stream, also while workers are still running jobs; no worker
\* appends to it or modifies it.
C18_OnlyCoordinatorWrites ==
    [][results_list' # results_list => C18_CoordinatorAppend]_vars

\* a row has been collected while a worker is running another job
C18_Witness ==
    /\ pcMain = "iterating"
    /\ results_list # <<>>
    /\ \E w \in Workers : workers[w].state = "busy"

\* C19: every Config handed to the codec pipeline is a member of the
\* 72-entry grid: for every loss and every predictor, also one that raises or
\* returns arbitrary scores, each of the four controllers returns a grid
\* member, and the Config of every job of the sweep is a grid member.
C19_ConfigsFromGrid ==
    /\ call \in {"static_controller", "heuristic_controller", "ml_controller",
                 "hybrid_controller"} =>
          /\ ret # None
          /\ ret[1] \in Range(generate_all_configs)
    /\ call = "generate_all_configs" =>
          \A p \in Range(FullJobList(First(AudioFileUniverse))) :
              Config(p.bitrate, p.frame_size, p.complexity, p.use_fec) \in Range(configs)

\* C21: the sweep writes its dataset only after every job's result has been
\* consumed and the pool has been closed and joined, and only if at least one
\* sample was collected, and then it writes the collected samples; when the
\* sweep ends by cancellation or by an exception in the coordinating loop no
\* dataset is written, whatever was collected by then.
C21_DatasetOnlyAfterJoin ==
    /\ dataset # <<>> =>
          /\ consumed = Len(all_job_params)
          /\ outq = <<>>
          /\ poolState = "closed"
          /\ poolJoined
          /\ \A w \in Workers : workers[w].state = "exited"
          /\ results_list # <<>>
          /\ dataset = Some(results_list)
          /\ ended = "normal"
    /\ ended \in {"interrupt", "uncaught_interrupt", "exception", "no_files"} =>
          dataset = <<>>
    /\ ended = "normal" /\ results_list = <<>> => dataset = <<>>

\* three jobs, one failed, the rows of the other two written
C21_Witness ==
    /\ pcMain = "exited"
    /\ ended = "normal"
    /\ Len(all_job_params) = 3
    /\ Cardinality(failed) = 1
    /\ dataset # <<>>
    /\ Len(dataset[1]) = 2

\* the files a job writes and reads in PROCESSED_AUDIO_DIR
C22_Paths(params) == {IntermediateOpusFile(params), FinalWavFile(params)}

\* two jobs with the same bitrate, frame_size, complexity, use_fec and loss
C22_SameValues(a, b) ==
    /\ a.bitrate = b.bitrate
    /\ a.frame_size = b.frame_size
    /\ a.complexity = b.complexity
    /\ a.use_fec = b.use_fec
    /\ a.packet_loss_perc = b.packet_loss_perc

\* C22: a job's intermediate .opus path and decoded .wav path are given by
\* its source file's stem and its (bitrate, frame_size, complexity, use_fec,
\* loss) values alone, and are the paths of no other job of the sweep whose
\* source file has another stem or is the same file: while a job runs, no
\* other job that may run beside it reads or writes its paths, provided no
\* two source files share a stem.
C22_DistinctPaths ==
    run_kind = "job" /\ run_pc = "decode" =>
        LET a == run_params[1]
        IN  /\ IntermediateOpusFile(a) \in processed_dir
            /\ \A b \in Range(FullJobList(NamedFiles)) :
                  /\ a.original_file.stem = b.original_file.stem /\ C22_SameValues(a, b)
                        => C22_Paths(a) = C22_Paths(b)
                  /\ b # a /\ (b.original_file = a.original_file
                               \/ b.original_file.stem # a.original_file.stem)
                        => C22_Paths(a) \cap C22_Paths(b) = {}

\* the job of x.flac at loss 10 has written its .opus file, whose name begins
\* like the names of the jobs of x_b8_f20_c5_nofec_l1.flac
C22_Witness ==
    /\ run_kind = "job"
    /\ run_pc = "decode"
    /\ run_params[1].original_file = [dir |-> "a", stem |-> "x"]
    /\ processed_dir = {"x_b8_f20_c5_nofec_l10.opus"}

====
